---- MODULE Spec2Model ----
(***************************************************************************)
(* Verification model of the document-management application              *)
(* (bilalhabbab/file-sage-whisper): the upload flow and the                *)
(* extract-content edge function, in the guarded variant the specification *)
(* designates (pdf.js with encryption / page-count / soft-limit guards and *)
(* saveExtraction).                                                         *)
(*                                                                         *)
(* Text is kept run-length encoded: a Text is a sequence of runs           *)
(* [c, n, p, q], n >= 1 copies of the character class c.  Classes:          *)
(*   "NUL" \x00, "CTL" other C0/DEL control characters removed by clean,   *)
(*   "FF" \x0B or \x0C (removed by clean, white space for trim),           *)
(*   "TAB", "LF", "CR", "SP", and printable characters ("a", "b", ...).    *)
(* A fixed message of the program is one run whose class names the message *)
(* and whose n is the message's length; p and q carry the numbers the      *)
(* message interpolates (0 otherwise).                                     *)
(***************************************************************************)
EXTENDS Integers, Sequences, FiniteSets, TLC

\* ------------------------------------------------------------- bounds
\* Number of upload slots (document ids / blob paths 1..MaxDocs).
MaxDocs == 1

\* The texts drawn as inputs of clean: at most MaxRuns runs, each of at most
\* MaxRunLen equal characters.
MaxRuns == 2

MaxRunLen == 3

\* The fragments of the PDFs drawn for the line reconstruction are shifted by
\* -MaxShift..MaxShift in x and in y.
MaxShift == 3

\* Number of chat turns sent, and of conversations started, by ChatInterface.
MaxTurns == 2

\* ------------------------------------------------- program constants
MAX_OUTPUT_CHARS == 50000
MAX_PDF_PAGES == 1000
SOFT_PDF_PAGES_LIMIT == 400
\* failure_reason.slice(0, 500) in saveExtraction
MAX_REASON_CHARS == 500
\* the line-break epsilon of the PDF line reconstruction
LINE_EPSILON == 2
\* message.substring(0, 50) in ai-chat
TITLE_CHARS == 50

\* ------------------------------------------------------------- text
Run(c, n) == [c |-> c, n |-> n, p |-> 0, q |-> 0]

Msg(c, n, p, q) == [c |-> c, n |-> n, p |-> p, q |-> q]

EmptyText == << >>

\* SQL NULL / JS null for a text column: distinct from every Text, whose runs
\* all have n >= 1 (the empty string is EmptyText, which is not null).
NULL == << [c |-> "NULL", n |-> 0, p |-> 0, q |-> 0] >>

RECURSIVE TextLen(_)
TextLen(t) == IF t = << >> THEN 0 ELSE Head(t).n + TextLen(Tail(t))

\* The character classes (every other class names a fixed message).
CharClasses == {"NUL", "CTL", "FF", "TAB", "LF", "CR", "SP", "a", "b", "c"}

\* Keep the encoding canonical: no empty run, no two adjacent runs of one class.
RECURSIVE Norm(_)
Norm(t) ==
  IF t = << >> THEN << >>
  ELSE IF Head(t).n = 0 THEN Norm(Tail(t))
  ELSE LET r == Norm(Tail(t)) IN
       IF r # << >> /\ Head(t).c = Head(r).c /\ Head(t).c \in CharClasses
       THEN << [Head(r) EXCEPT !.n = Head(t).n + Head(r).n] >> \o Tail(r)
       ELSE << Head(t) >> \o r

Concat(s, t) == Norm(s \o t)

\* Mutant of Slice: the cut is missing.
SliceNothing(t, k) == t

\* s.slice(0, k)
RECURSIVE Slice(_, _)
Slice(t, k) ==
  IF t = << >> \/ k <= 0 THEN << >>
  ELSE IF Head(t).n <= k THEN << Head(t) >> \o Slice(Tail(t), k - Head(t).n)
  ELSE << [Head(t) EXCEPT !.n = k] >>

\* /\0/ and /[\x00-\x08\x0B\x0C\x0E-\x1F\x7F]/
IsControl(c) == c \in {"NUL", "CTL", "FF"}

\* [ \t]
IsBlank(c) == c \in {"SP", "TAB"}

\* White space of String.prototype.trim / trimEnd that the alphabet holds.
IsSpace(c) == c \in {"SP", "TAB", "LF", "CR", "FF"}

\* Mutant of StripControl: only NUL is removed.
StripNulOnly(t) == Norm(SelectSeq(t, LAMBDA r : r.c # "NUL"))

\* .replace(/\0/g, "").replace(/[\x00-\x08\x0B\x0C\x0E-\x1F\x7F]/g, "")
StripControl(t) == Norm(SelectSeq(t, LAMBDA r : ~IsControl(r.c)))

\* Is the first character after the leading blanks of t a newline?
RECURSIVE BlanksThenLF(_)
BlanksThenLF(t) ==
  IF t = << >> THEN FALSE
  ELSE IF IsBlank(Head(t).c) THEN BlanksThenLF(Tail(t))
  ELSE Head(t).c = "LF"

\* .replace(/[ \t]+\n/g, "\n")
RECURSIVE StripBlanksBeforeLF(_)
StripBlanksBeforeLF(t) ==
  IF t = << >> THEN << >>
  ELSE IF IsBlank(Head(t).c) /\ BlanksThenLF(Tail(t)) THEN StripBlanksBeforeLF(Tail(t))
  ELSE << Head(t) >> \o StripBlanksBeforeLF(Tail(t))

\* Mutant of CollapseNewlines: newline runs are kept.
KeepNewlines(t) == t

\* .replace(/\n{3,}/g, "\n\n"), on a canonical text
CollapseNewlines(t) ==
  [i \in 1..Len(t) |-> IF t[i].c = "LF" /\ t[i].n >= 3 THEN [t[i] EXCEPT !.n = 2] ELSE t[i]]

\* Number of characters in the leading group of blanks of t, and what follows it.
RECURSIVE BlankPrefixLen(_)
BlankPrefixLen(t) ==
  IF t = << >> \/ ~IsBlank(Head(t).c) THEN 0 ELSE Head(t).n + BlankPrefixLen(Tail(t))

RECURSIVE DropBlankPrefix(_)
DropBlankPrefix(t) ==
  IF t = << >> \/ ~IsBlank(Head(t).c) THEN t ELSE DropBlankPrefix(Tail(t))

\* .replace(/[ \t]{2,}/g, " ")
RECURSIVE CollapseBlanks(_)
CollapseBlanks(t) ==
  IF t = << >> THEN << >>
  ELSE IF IsBlank(Head(t).c)
       THEN IF BlankPrefixLen(t) >= 2
            THEN << Run("SP", 1) >> \o CollapseBlanks(DropBlankPrefix(t))
            ELSE << Head(t) >> \o CollapseBlanks(Tail(t))
       ELSE << Head(t) >> \o CollapseBlanks(Tail(t))

RECURSIVE TrimStart(_)
TrimStart(t) == IF t # << >> /\ IsSpace(Head(t).c) THEN TrimStart(Tail(t)) ELSE t

RECURSIVE TrimEnd(_)
TrimEnd(t) ==
  IF t # << >> /\ IsSpace(t[Len(t)].c) THEN TrimEnd(SubSeq(t, 1, Len(t) - 1)) ELSE t

Trim(t) == TrimEnd(TrimStart(t))

\* Mutant of clean: newline runs are collapsed before the blanks in front of
\* newlines are removed.
cleanNewlinesFirst(s) ==
  Trim(Norm(CollapseBlanks(Norm(StripBlanksBeforeLF(Norm(CollapseNewlines(StripControl(s))))))))

clean(s) ==
  Trim(Norm(CollapseBlanks(CollapseNewlines(Norm(StripBlanksBeforeLF(StripControl(s)))))))

\* ------------------------------------------------------- fixed messages
RECURSIVE Digits(_)
Digits(k) == IF k < 10 THEN 1 ELSE 1 + Digits(k \div 10)

OCR_MESSAGE == << Msg("OCR_MESSAGE", 82, 0, 0) >>

UNSUPPORTED_MESSAGE == << Msg("UNSUPPORTED_MESSAGE", 87, 0, 0) >>

\* `[Truncated at ${cap}/${doc.numPages} pages for size/performance.]`
TruncationMarker(cap, total) ==
  << Msg("TRUNCATION_MARKER", 44 + Digits(cap) + Digits(total), cap, total) >>

DOWNLOAD_FAILED == << Msg("DOWNLOAD_FAILED", 23, 0, 0) >>

ENCRYPTED_REASON == << Msg("ENCRYPTED_REASON", 50, 0, 0) >>

CORRUPT_REASON == << Msg("CORRUPT_REASON", 40, 0, 0) >>

\* `PDF has ${doc.numPages} pages (limit ${MAX_PDF_PAGES}).`
PageLimitReason(pages) ==
  << Msg("PAGE_LIMIT_REASON", 24 + Digits(pages) + Digits(MAX_PDF_PAGES), pages, MAX_PDF_PAGES) >>

\* controller.abort("Operation timed out")
TIMED_OUT == << Msg("TIMED_OUT", 19, 0, 0) >>

\* String(e?.message ?? e) of an error thrown by getPage / getTextContent
PAGE_ERROR == << Msg("PAGE_ERROR", 20, 0, 0) >>

\* ---------------------------------------------------------------- files
\* A stored file: the extension of its name, what pdf.js makes of its bytes
\* (open: "ok" | "encrypted" | "corrupt" | "hangs", the last for an open whose
\* promise never settles; numPages; the positioned text items
\* frags, each [pg, isStr, s, trm, x, y]; failPage, the page whose retrieval
\* throws, 0 for none), what TextDecoder makes of them (text) and what
\* JSON.parse / JSON.stringify(obj, null, 2) make of that (jsonValid, jsonPretty).
File(ext, open, numPages, frags, failPage, text, jsonValid, jsonPretty) ==
  [exists |-> TRUE, ext |-> ext, open |-> open, numPages |-> numPages, frags |-> frags,
   failPage |-> failPage, text |-> text, jsonValid |-> jsonValid, jsonPretty |-> jsonPretty]

NoFile ==
  [exists |-> FALSE, ext |-> "", open |-> "corrupt", numPages |-> 0, frags |-> << >>,
   failPage |-> 0, text |-> << >>, jsonValid |-> FALSE, jsonPretty |-> << >>]

Frag(pg, s, x, y) == [pg |-> pg, isStr |-> TRUE, s |-> s, trm |-> TRUE, x |-> x, y |-> y]

\* Mutant of Lower: the suffix is compared as typed.
LowerCaseSensitive(ext) == ext

\* filePath.toLowerCase(), on the extension that ends the path
Lower(ext) ==
  CASE ext = "PDF" -> "pdf"
    [] ext = "TXT" -> "txt"
    [] ext = "Md" -> "md"
    [] ext = "CSV" -> "csv"
    [] ext = "JSON" -> "json"
    [] OTHER -> ext

\* ---------------------------------------------------- PDF line reconstruction
Abs(i) == IF i < 0 THEN -i ELSE i

\* Mutant of ScanItem: only a change of y starts a new line.
ScanItemNoBacktrack(st, it) ==
  LET s == IF it.isStr THEN it.s ELSE EmptyText
      x == IF it.trm THEN it.x ELSE st.lastX
      y == IF it.trm THEN it.y ELSE st.lastY
      newLine == y # st.lastY /\ Abs(y - st.lastY) > LINE_EPSILON
  IN IF s = EmptyText THEN st
     ELSE IF newLine
          THEN [out |-> IF TrimEnd(st.line) # EmptyText
                        THEN Append(st.out, TrimEnd(st.line)) ELSE st.out,
                line |-> s, lastX |-> x, lastY |-> y]
          ELSE [out |-> st.out,
                line |-> Concat(st.line,
                                IF st.line # EmptyText THEN Concat(<< Run("SP", 1) >>, s) ELSE s),
                lastX |-> x, lastY |-> y]

\* One step of `for (const it of tc.items)`: st = [out, line, lastX, lastY].
ScanItem(st, it) ==
  LET s == IF it.isStr THEN it.s ELSE EmptyText
      x == IF it.trm THEN it.x ELSE st.lastX
      y == IF it.trm THEN it.y ELSE st.lastY
      newLine == y # st.lastY /\ Abs(y - st.lastY) > LINE_EPSILON
      backtrack == x < st.lastX - LINE_EPSILON
  IN IF s = EmptyText THEN st
     ELSE IF newLine \/ backtrack
          THEN [out |-> IF TrimEnd(st.line) # EmptyText
                        THEN Append(st.out, TrimEnd(st.line)) ELSE st.out,
                line |-> s, lastX |-> x, lastY |-> y]
          ELSE [out |-> st.out,
                line |-> Concat(st.line,
                                IF st.line # EmptyText THEN Concat(<< Run("SP", 1) >>, s) ELSE s),
                lastX |-> x, lastY |-> y]

RECURSIVE ScanItems(_, _)
ScanItems(st, items) ==
  IF items = << >> THEN st ELSE ScanItems(ScanItem(st, Head(items)), Tail(items))

\* What one page appends to `pages`: its lines, then "" (the page break).
PageLines(items) ==
  LET st == ScanItems([out |-> << >>, line |-> EmptyText, lastX |-> 0, lastY |-> 0], items)
  IN (IF st.line # EmptyText THEN Append(st.out, TrimEnd(st.line)) ELSE st.out)
       \o << EmptyText >>

PageItems(f, i) == SelectSeq(f.frags, LAMBDA it : it.pg = i)

\* pages.join("\n"), elements lo..hi.  The range is halved rather than walked
\* so that the evaluation depth stays logarithmic in the number of pages.
RECURSIVE JoinRange(_, _, _)
JoinRange(pages, lo, hi) ==
  IF lo > hi THEN EmptyText
  ELSE IF lo = hi THEN pages[lo]
  ELSE LET mid == (lo + hi) \div 2 IN
       Concat(JoinRange(pages, lo, mid),
              Concat(<< Run("LF", 1) >>, JoinRange(pages, mid + 1, hi)))

JoinLines(pages) == JoinRange(pages, 1, Len(pages))

Min(a, b) == IF a < b THEN a ELSE b

\* `for (let i = lo; i <= hi; i++)`: what pages lo..hi append to `pages`
\* (halved, as JoinRange).
RECURSIVE ScanRange(_, _, _)
ScanRange(f, lo, hi) ==
  IF lo > hi THEN << >>
  ELSE IF lo = hi THEN PageLines(PageItems(f, lo))
  ELSE LET mid == (lo + hi) \div 2 IN ScanRange(f, lo, mid) \o ScanRange(f, mid + 1, hi)

ScanPages(f, cap) == ScanRange(f, 1, cap)

\* The result of the EXTRACT try block: [ok, content, reason, pagesRead].
Extracted(content) == [ok |-> TRUE, content |-> content, reason |-> EmptyText, pagesRead |-> 0]

Failed(reason, pagesRead) ==
  [ok |-> FALSE, content |-> EmptyText, reason |-> reason, pagesRead |-> pagesRead]

\* if (!content) content = "This PDF appears to be image-based ..."
OcrFallback(content) == IF content = EmptyText THEN OCR_MESSAGE ELSE content

\* The pages array once the loop is over: the truncation marker is pushed
\* when the soft limit cut the scan short.
PagesWithMarker(f, cap) ==
  IF cap < f.numPages
  THEN Append(ScanPages(f, cap), TruncationMarker(cap, f.numPages))
  ELSE ScanPages(f, cap)

\* Mutant of OpenFailureReason: the password test is missing.
OpenFailureAlwaysCorrupt(open) == CORRUPT_REASON

\* The wording pdf.js rejects the open with decides the reason.
OpenFailureReason(open) == IF open = "encrypted" THEN ENCRYPTED_REASON ELSE CORRUPT_REASON

\* Mutant of PageCeilingExceeded: no ceiling, every page is walked.
NoPageCeiling(numPages) == FALSE

PageCeilingExceeded(numPages) == numPages > MAX_PDF_PAGES

ExtractPdf(f) ==
  IF f.open # "ok" THEN Failed(OpenFailureReason(f.open), 0)
  ELSE IF PageCeilingExceeded(f.numPages) THEN Failed(PageLimitReason(f.numPages), 0)
  ELSE LET cap == Min(f.numPages, SOFT_PDF_PAGES_LIMIT) IN
       IF f.failPage \in 1..cap THEN Failed(PAGE_ERROR, f.failPage - 1)
       ELSE LET pages == PagesWithMarker(f, cap)
                content == Slice(clean(JoinLines(pages)), MAX_OUTPUT_CHARS)
            IN [Extracted(OcrFallback(content)) EXCEPT !.pagesRead = cap]

\* raw.split(/\r?\n/): the "\r" of each "\r\n" goes with the separator.
RECURSIVE DropCRBeforeLF(_)
DropCRBeforeLF(t) ==
  IF t = << >> THEN << >>
  ELSE IF Head(t).c = "CR" /\ Len(t) >= 2 /\ t[2].c = "LF"
       THEN << [Head(t) EXCEPT !.n = Head(t).n - 1] >> \o DropCRBeforeLF(Tail(t))
       ELSE << Head(t) >> \o DropCRBeforeLF(Tail(t))

\* l.replace(/[ \t]+/g, " ")
RECURSIVE BlanksToSpace(_)
BlanksToSpace(t) ==
  IF t = << >> THEN << >>
  ELSE IF IsBlank(Head(t).c) THEN << Run("SP", 1) >> \o BlanksToSpace(DropBlankPrefix(t))
  ELSE << Head(t) >> \o BlanksToSpace(Tail(t))

\* Does t start with white space that runs up to the end of its line?
RECURSIVE SpaceToLineEnd(_)
SpaceToLineEnd(t) ==
  IF t = << >> THEN TRUE
  ELSE IF Head(t).c = "LF" THEN TRUE
  ELSE IF IsSpace(Head(t).c) THEN SpaceToLineEnd(Tail(t))
  ELSE FALSE

\* l.trimEnd() on every line of t
RECURSIVE TrimLineEnds(_)
TrimLineEnds(t) ==
  IF t = << >> THEN << >>
  ELSE IF Head(t).c # "LF" /\ IsSpace(Head(t).c) /\ SpaceToLineEnd(Tail(t))
       THEN TrimLineEnds(Tail(t))
       ELSE << Head(t) >> \o TrimLineEnds(Tail(t))

\* lines.join("\n") of the split, per-line cleaned text
CsvLines(raw) == Norm(TrimLineEnds(Norm(BlanksToSpace(Norm(DropCRBeforeLF(raw))))))

\* Mutant of ExtractContent: a type that is not supported is an extraction failure.
ExtractContentRejectsUnknown(f) ==
  LET lower == Lower(f.ext) IN
  IF lower = "pdf" THEN ExtractPdf(f)
  ELSE IF lower = "txt" \/ lower = "md"
       THEN Extracted(Slice(clean(f.text), MAX_OUTPUT_CHARS))
  ELSE IF lower = "csv"
       THEN Extracted(Slice(clean(CsvLines(f.text)), MAX_OUTPUT_CHARS))
  ELSE IF lower = "json"
       THEN IF f.jsonValid
            THEN Extracted(Slice(clean(f.jsonPretty), MAX_OUTPUT_CHARS))
            ELSE Extracted(Slice(clean(f.text), MAX_OUTPUT_CHARS))
  ELSE Failed(UNSUPPORTED_MESSAGE, 0)

\* The try block of the handler's EXTRACT step, for the file stored under a
\* path ending in "." \o f.ext.
ExtractContent(f) ==
  LET lower == Lower(f.ext) IN
  IF lower = "pdf" THEN ExtractPdf(f)
  ELSE IF lower = "txt" \/ lower = "md"
       THEN Extracted(Slice(clean(f.text), MAX_OUTPUT_CHARS))
  ELSE IF lower = "csv"
       THEN Extracted(Slice(clean(CsvLines(f.text)), MAX_OUTPUT_CHARS))
  ELSE IF lower = "json"
       THEN IF f.jsonValid
            THEN Extracted(Slice(clean(f.jsonPretty), MAX_OUTPUT_CHARS))
            ELSE Extracted(Slice(clean(f.text), MAX_OUTPUT_CHARS))
  ELSE Extracted(UNSUPPORTED_MESSAGE)

\* ---------------------------------------------------------------- state
VARIABLES
  rows,    \* documents table: document id -> row (exists = FALSE: no such row)
  blobs,   \* storage bucket "documents": path -> file (exists = FALSE: no object)
  last,    \* what the latest extract-content invocation did and answered
  uploading,  \* FileUpload's uploadingFiles: slot aimed at -> status of the upload
  chat_sessions,  \* chat_sessions table: the rows in insertion order (id = position)
  chat_messages,  \* chat_messages table: the rows in insertion order
  view,    \* ChatInterface's state: messages, currentSessionId, isLoading
  call     \* the ai-chat invocation sendMessage awaits, and its response

docVars == << rows, blobs, last, uploading >>

chatVars == << chat_sessions, chat_messages, view, call >>

vars == << rows, blobs, last, uploading, chat_sessions, chat_messages, view, call >>

Users == {"A", "B"}

\* Document ids and storage paths: slot k is the k-th stored upload; MaxDocs + 1
\* is an id / a path that no upload ever produces.
Slots == 1..MaxDocs

GhostSlot == MaxDocs + 1

\* The files users upload in this model.
TxtFile ==
  File("txt", "ok", 0, << >>, 0,
       << Run("a", 5), Run("NUL", 1), Run("b", 5), Run("LF", 4), Run("c", 3) >>, FALSE, << >>)

EncryptedPdf == File("pdf", "encrypted", 0, << >>, 0, << Run("CTL", 3) >>, FALSE, << >>)

OversizedPdf == File("PDF", "ok", MAX_PDF_PAGES + 1, << >>, 0, << Run("CTL", 3) >>, FALSE, << >>)

ImageOnlyPdf == File("pdf", "ok", 2, << >>, 0, << Run("CTL", 3) >>, FALSE, << >>)

LongImageOnlyPdf ==
  File("pdf", "ok", SOFT_PDF_PAGES_LIMIT + 1, << >>, 0, << Run("CTL", 3) >>, FALSE, << >>)

Files == {TxtFile, EncryptedPdf, OversizedPdf, ImageOnlyPdf, LongImageOnlyPdf}

\* ---- the files of the uploaded-document specifications
\* Bytes with control characters, blanks before line ends, long newline runs
\* and "\r\n" line ends; not valid JSON.
NoisyText ==
  << Run("SP", 2), Run("a", 3), Run("NUL", 1), Run("b", 2), Run("SP", 2), Run("TAB", 1),
     Run("CTL", 2), Run("c", 1), Run("SP", 1), Run("CR", 1), Run("LF", 1), Run("SP", 1),
     Run("LF", 3), Run("FF", 1), Run("a", 2), Run("TAB", 2), Run("LF", 1) >>

\* `{"a":1}` and what JSON.stringify(obj, null, 2) makes of it.
JsonText == << Run("a", 7) >>

JsonPretty == << Run("a", 1), Run("LF", 1), Run("SP", 2), Run("b", 6), Run("LF", 1), Run("a", 1) >>

\* More characters than MAX_OUTPUT_CHARS.
LongText == << Run("a", MAX_OUTPUT_CHARS + 10000) >>

LongPretty == << Run("b", MAX_OUTPUT_CHARS + 20000) >>

\* File name extensions as users type them.
Extensions == {"txt", "TXT", "md", "Md", "csv", "CSV", "json", "JSON", "pdf", "PDF", "xyz", "docx", ""}

\* The same bytes stored under every extension: as a PDF they do not open.
NoisyFile(ext) == File(ext, "corrupt", 0, << >>, 0, NoisyText, FALSE, << >>)

JsonFile(ext) == File(ext, "corrupt", 0, << >>, 0, JsonText, TRUE, JsonPretty)

LongFile(ext) == File(ext, "corrupt", 0, << >>, 0, LongText, TRUE, LongPretty)

\* PDFs with text: two lines on page 1 (the second by a jump of y), one item
\* of page 2 with control characters; a long one; one above the soft limit
\* whose text is cut before the marker; one whose page 2 cannot be read; one
\* whose open never settles.
TextPdf ==
  File("pdf", "ok", 2,
       << Frag(1, << Run("a", 4) >>, 10, 700), Frag(1, << Run("b", 2) >>, 40, 700),
          Frag(1, << Run("c", 3), Run("SP", 2) >>, 10, 680),
          Frag(2, << Run("NUL", 1), Run("a", 2), Run("CTL", 1), Run("FF", 1), Run("b", 1) >>, 10, 700) >>,
       0, << Run("CTL", 3) >>, FALSE, << >>)

LongTextPdf ==
  File("PDF", "ok", 2,
       << Frag(1, LongText, 10, 700), Frag(2, LongText, 10, 700) >>,
       0, << Run("CTL", 3) >>, FALSE, << >>)

LongTruncatedPdf ==
  File("pdf", "ok", SOFT_PDF_PAGES_LIMIT + 2, << Frag(1, LongText, 10, 700) >>,
       0, << Run("CTL", 3) >>, FALSE, << >>)

UnreadablePagePdf ==
  File("pdf", "ok", 3, << Frag(1, << Run("a", 4) >>, 10, 700) >>, 2, << Run("CTL", 3) >>, FALSE, << >>)

HangingPdf == File("pdf", "hangs", 0, << >>, 0, << Run("CTL", 3) >>, FALSE, << >>)

UploadedFiles ==
  {NoisyFile(e) : e \in Extensions} \cup {JsonFile(e) : e \in {"json", "JSON", "txt", "csv"}}
    \cup {LongFile(e) : e \in {"txt", "md", "csv", "json", "xyz"}}
    \cup {File("json", "corrupt", 0, << >>, 0, LongText, FALSE, << >>)}
    \cup {TxtFile, EncryptedPdf, OversizedPdf, ImageOnlyPdf, LongImageOnlyPdf,
          TextPdf, LongTextPdf, LongTruncatedPdf, UnreadablePagePdf, HangingPdf}

\* ---- the inputs of clean
\* NUL, a C0/DEL control character, tab, LF, CR, space, a printable character.
InputClasses == {"NUL", "CTL", "TAB", "LF", "CR", "SP", "a"}

\* Every text of at most MaxRuns runs of at most MaxRunLen characters.
BoundedTexts ==
  {Norm(t) : t \in UNION {[1..k -> {Run(c, n) : c \in InputClasses, n \in 1..MaxRunLen}] :
                            k \in 0..MaxRuns}}

\* Longer texts: newlines apart by blanks and controls, blanks apart by
\* controls, white space at both ends.
SampleTexts ==
  {NoisyText, TxtFile.text,
   << Run("a", 1), Run("LF", 1), Run("SP", 1), Run("LF", 1), Run("TAB", 2), Run("LF", 1), Run("a", 1) >>,
   << Run("a", 1), Run("LF", 2), Run("CTL", 1), Run("LF", 2), Run("a", 1) >>,
   << Run("a", 1), Run("SP", 1), Run("NUL", 1), Run("SP", 1), Run("a", 1) >>,
   << Run("LF", 1), Run("SP", 1), Run("a", 1), Run("SP", 1), Run("CR", 1), Run("LF", 4),
      Run("a", 1), Run("TAB", 1), Run("SP", 1), Run("LF", 1), Run("CR", 1) >>}

SanitizeInputs == BoundedTexts \cup SampleTexts

TextFile(t) == File("txt", "corrupt", 0, << >>, 0, t, FALSE, << >>)

SanitizeFiles == {TextFile(t) : t \in SanitizeInputs}

\* ExtractContent of each file, evaluated once.
\* PDFs for the line reconstruction: page 1 holds three fragments, each placed
\* relative to the one before it in the item list (the second one possibly
\* with an empty str), page 2 holds one.
Shifts == (0 - MaxShift)..MaxShift

LayoutPdf(s2, dx2, dy2, dx3, dy3) ==
  File("pdf", "ok", 2,
       << Frag(1, << Run("a", 2) >>, 10, 700),
          Frag(1, s2, 10 + dx2, 700 + dy2),
          Frag(1, << Run("c", 2) >>, 10 + dx2 + dx3, 700 + dy2 + dy3),
          Frag(2, << Run("b", 3) >>, 10, 700) >>,
       0, << Run("CTL", 3) >>, FALSE, << >>)

LayoutPdfs ==
  {LayoutPdf(s2, dx2, dy2, dx3, dy3) :
     s2 \in {EmptyText, << Run("b", 1) >>}, dx2 \in Shifts, dy2 \in Shifts,
     dx3 \in Shifts, dy3 \in Shifts}

ExtractionOf == [f \in Files \cup UploadedFiles |-> ExtractContent(f)]

\* The EXTRACT block on file f (the long files are extracted once).
Extraction(f) == IF f \in DOMAIN ExtractionOf THEN ExtractionOf[f] ELSE ExtractContent(f)

NoRow ==
  [exists |-> FALSE, user_id |-> "none", file_path |-> 0, content |-> NULL,
   extraction_status |-> "pending", failure_reason |-> NULL]

\* The defaults of the columns the insert leaves out (data model: a document
\* is created with status pending and content null).
ColumnDefaults ==
  [content |-> NULL, extraction_status |-> "pending", failure_reason |-> NULL]

\* The row uploadFile inserts: user_id and file_path, the rest by default.
NewRow(u, path) ==
  [exists |-> TRUE, user_id |-> u, file_path |-> path] @@ ColumnDefaults

\* ------------------------------------------------------------ requests
\* Authorization header: scheme "none" (no header), "Raw" (the token alone,
\* without the "Bearer " prefix) or "Bearer"; the token is a user's name (that
\* user's valid token) or "bad".
AuthHeaders ==
  {[scheme |-> "none", token |-> "bad"]}
    \cup {[scheme |-> sc, token |-> t] : sc \in {"Raw", "Bearer"}, t \in Users \cup {"bad"}}

\* body.documentId: kind "missing" | "nonstring" | "string"; id 0 is "".
DocArgs ==
  {[kind |-> "missing", id |-> 0], [kind |-> "nonstring", id |-> 0]}
    \cup {[kind |-> "string", id |-> i] : i \in 0..GhostSlot}

\* body.filePath: kind as above; a string is `slashes` leading "/" followed by
\* the path of slot p (p = 0: nothing follows).  Leading slashes are tried on
\* the empty path and on the path of slot 1.
PathArgs ==
  {[kind |-> "missing", slashes |-> 0, p |-> 0], [kind |-> "nonstring", slashes |-> 0, p |-> 0]}
    \cup {[kind |-> "string", slashes |-> 0, p |-> p] : p \in 0..GhostSlot}
    \cup {[kind |-> "string", slashes |-> 1, p |-> p] : p \in 0..1}

Request(method, auth, json, doc, path) ==
  [method |-> method, auth |-> auth, json |-> json, documentId |-> doc, filePath |-> path]

DefaultDoc == [kind |-> "string", id |-> 1]

DefaultPath == [kind |-> "string", slashes |-> 0, p |-> 1]

DefaultAuth == [scheme |-> "Bearer", token |-> "A"]

\* The requests sent to the function.  A field the handler returns before
\* reading is left at its default: its value cannot change what happens.
Requests ==
  {Request(m, a, TRUE, DefaultDoc, DefaultPath) :
     m \in {"OPTIONS", "GET"}, a \in {DefaultAuth, [scheme |-> "none", token |-> "bad"]}}
    \cup {Request("POST", a, TRUE, DefaultDoc, DefaultPath) :
            a \in {h \in AuthHeaders : h.scheme # "Bearer" \/ h.token = "bad"}}
    \cup {Request("POST", [scheme |-> "Bearer", token |-> u], FALSE, DefaultDoc, DefaultPath) :
            u \in Users}
    \cup {Request("POST", [scheme |-> "Bearer", token |-> u], TRUE, d, DefaultPath) :
            u \in Users, d \in {a \in DocArgs : a.kind # "string" \/ a.id = 0}}
    \cup {Request("POST", [scheme |-> "Bearer", token |-> u], TRUE, d, p) :
            u \in Users, d \in {a \in DocArgs : a.kind = "string" /\ a.id # 0}, p \in PathArgs}

\* The awaited client call that rejects (throws) instead of resolving to
\* { data, error }: none, the identity lookup, the download or the row update.
Throws == {"none", "getUser", "download", "update"}

\* What the services answer during one invocation: are the environment
\* variables set, does the storage download succeed when the object exists,
\* does the database accept the update, which client call throws.
Environments == [envOk : BOOLEAN, dlOk : BOOLEAN, dbOk : BOOLEAN, throws : Throws]

AllUp == [envOk |-> TRUE, dlOk |-> TRUE, dbOk |-> TRUE, throws |-> "none"]

\* Does the handler get as far as the download on this request?
ReachesDownload(req) ==
  /\ req.method = "POST" /\ req.auth.scheme = "Bearer" /\ req.auth.token \in Users /\ req.json
  /\ req.documentId.kind = "string" /\ req.documentId.id # 0
  /\ req.filePath.kind = "string" /\ (req.filePath.slashes > 0 \/ req.filePath.p # 0)

\* Can the answer of the storage and of the database change what the
\* invocation does?  The download of a path no upload produces fails whatever
\* the storage does, the update of an id no insert produces matches nothing
\* whatever the database does.
AnswersMatter(req, env) ==
  /\ env.dlOk \/ (req.filePath.p \in Slots)
  /\ env.dbOk \/ (req.documentId.id \in Slots)

\* The invocations anyone may send: a request and the services' answers, each
\* client call resolving to { data, error }.  An answer the handler never asks
\* for, or that cannot change what it does, is left at "up".
Invocations ==
  {i \in {[req |-> r, env |-> e] : r \in {q \in Requests : ReachesDownload(q)},
                                   e \in {v \in Environments : v.envOk /\ v.throws = "none"}} :
     AnswersMatter(i.req, i.env)}
    \cup {[req |-> r, env |-> AllUp] : r \in Requests}
    \cup {[req |-> r, env |-> [AllUp EXCEPT !.envOk = FALSE]] :
            r \in {q \in Requests : q.method = "POST"}}

\* ------------------------------------------------------- saveExtraction
\* The update's payload: content only with status complete, failure_reason
\* only when one is given (a non-empty string), cut to 500 characters.
Payload(content, status, failure_reason) ==
  [extraction_status |-> status,
   setsContent |-> status = "complete",
   content |-> IF status = "complete" THEN content ELSE NULL,
   setsReason |-> failure_reason # EmptyText,
   failure_reason |-> IF failure_reason # EmptyText
                      THEN Slice(failure_reason, MAX_REASON_CHARS) ELSE NULL]

NoPayload ==
  [extraction_status |-> "none", setsContent |-> FALSE, content |-> NULL,
   setsReason |-> FALSE, failure_reason |-> NULL]

ApplyPayload(row, payload) ==
  [row EXCEPT !.extraction_status = payload.extraction_status,
              !.content = IF payload.setsContent THEN payload.content ELSE @,
              !.failure_reason = IF payload.setsReason THEN payload.failure_reason ELSE @]

\* Mutant of Matches: the update is scoped by id alone.
MatchesIdOnly(rs, userId, documentId) ==
  {d \in DOMAIN rs : rs[d].exists /\ d = documentId}

\* .eq("id", documentId).eq("user_id", userId)
Matches(rs, userId, documentId) ==
  {d \in DOMAIN rs : rs[d].exists /\ d = documentId /\ rs[d].user_id = userId}

\* .update(payload) ... .select("id").single(): the rows after the call, and
\* what it resolves to.  single() answers an error unless exactly one row
\* comes back; a database error changes nothing.
saveExtraction(rs, userId, documentId, content, status, failure_reason, dbOk) ==
  LET payload == Payload(content, status, failure_reason)
      hit == IF dbOk THEN Matches(rs, userId, documentId) ELSE {}
  IN [rows |-> [d \in DOMAIN rs |-> IF d \in hit THEN ApplyPayload(rs[d], payload) ELSE rs[d]],
      error |-> Cardinality(hit) # 1,
      data |-> IF Cardinality(hit) = 1 THEN documentId ELSE 0,
      matched |-> Cardinality(hit),
      payload |-> payload]

\* --------------------------------------------------- the serve handler
\* Mutant of BearerToken: any header is taken, "Bearer " replaced if present.
BearerTokenLenient(auth) ==
  IF auth.scheme # "none" THEN [ok |-> TRUE, token |-> auth.token]
  ELSE [ok |-> FALSE, token |-> "bad"]

\* auth?.startsWith("Bearer ") and auth.slice("Bearer ".length).trim()
BearerToken(auth) ==
  IF auth.scheme = "Bearer" THEN [ok |-> TRUE, token |-> auth.token]
  ELSE [ok |-> FALSE, token |-> "bad"]

\* supabase.auth.getUser(token): the user, or "none" (authErr or no user)
GetUser(token) == IF token \in Users THEN token ELSE "none"

\* typeof documentId === "string" && documentId
DocumentIdGiven(d) == d.kind = "string" /\ d.id # 0

\* Mutant of FilePathGiven: the type is checked, the emptiness is not.
FilePathGivenTypeOnly(p) == p.kind = "string"

\* typeof filePathRaw === "string" && filePathRaw
FilePathGiven(p) == p.kind = "string" /\ (p.slashes > 0 \/ p.p # 0)

\* filePathRaw.replace(/^\/+/, "")
NormalizePath(p) == p.p

\* storage.from("documents").download(filePath)
Download(bs, path, dlOk) ==
  IF dlOk /\ path \in DOMAIN bs /\ bs[path].exists
  THEN [error |-> FALSE, data |-> bs[path]]
  ELSE [error |-> TRUE, data |-> NoFile]

\* What an invocation did and answered: the request, the services' answers,
\* the response (code, error, success, content, reason) and the calls made
\* (identity lookups, downloads, row updates with the payload of the latest and
\* the number of rows it matched, PDF pages read).  stage is the step that ended it:
\* "method", "env", "auth", "body", "download", "extract", "save" (the final
\* update failed or matched nothing) or "done"; "escaped" when a rejected call
\* left the handler as an exception, "parsing" while the PDF open has not
\* settled (no response yet); "idle" before any invocation.  jsonBody: was the
\* response built by json(); cors: does it carry the CORS headers; aborted: has
\* the timeout guard's timer fired.
Idle ==
  [req |-> Request("none", [scheme |-> "none", token |-> "bad"], TRUE, DefaultDoc, DefaultPath),
   env |-> AllUp, stage |-> "idle", code |-> 0, error |-> "none", success |-> FALSE,
   content |-> NULL, reason |-> EmptyText,
   caller |-> "none", doc |-> 0, path |-> 0,
   lookups |-> 0, downloads |-> 0, updates |-> 0, matched |-> 0,
   payload |-> NoPayload, pagesRead |-> 0, jsonBody |-> FALSE, cors |-> FALSE,
   aborted |-> FALSE]

Outcome(rs, trace) == [rows |-> rs, trace |-> trace]

\* return json({ error }, { status }) before the request names a document
Reject(rs, t, stage, code, error) ==
  Outcome(rs, [t EXCEPT !.stage = stage, !.code = code, !.error = error, !.jsonBody = TRUE, !.cors = TRUE])

\* if (req.method === "OPTIONS") return new Response(null, { headers: CORS })
Preflight(rs, t) == Outcome(rs, [t EXCEPT !.stage = "method", !.code = 200, !.cors = TRUE])

\* Mutant of MethodAllowed: the method is not looked at.
MethodAllowedAny(method) == TRUE

\* req.method !== "POST" is answered 405
MethodAllowed(method) == method = "POST"

\* An awaited call outside every try block rejects: the exception leaves the
\* handler, which builds no response (the runtime answers a bare 500).
Escaped(rs, t) ==
  Outcome(rs, [t EXCEPT !.stage = "escaped", !.code = 500, !.error = "Internal Server Error"])

\* await pdfjsLib.getDocument(...).promise on an open that never settles: the
\* handler stays there, the timeout guard's timer armed.
Parsing(rs, t) == Outcome(rs, [t EXCEPT !.stage = "parsing"])

\* Does the PDF branch open this file and never hear back?
Hangs(f) == Lower(f.ext) = "pdf" /\ f.open = "hangs"

\* The trace of an invocation that called saveExtraction once, with result sv.
Saved(t, sv) ==
  [t EXCEPT !.updates = @ + 1, !.matched = sv.matched, !.payload = sv.payload]

\* Mutant of DownloadFailed: the failure is answered without marking the row.
DownloadFailedNoSave(rs, t, user, doc, dbOk) ==
  Outcome(rs, [t EXCEPT !.stage = "download", !.code = 500,
                        !.error = "Failed to download file", !.jsonBody = TRUE, !.cors = TRUE])

\* if (dlErr) { await saveExtraction(..., "", "failed", "Failed to download file");
\*              return json({ error: "Failed to download file" }, { status: 502 }); }
DownloadFailed(rs, t, user, doc, dbOk) ==
  LET sv == saveExtraction(rs, user, doc, EmptyText, "failed", DOWNLOAD_FAILED, dbOk)
  IN Outcome(sv.rows,
             [Saved(t, sv) EXCEPT !.stage = "download", !.code = 502,
                                       !.error = "Failed to download file", !.jsonBody = TRUE, !.cors = TRUE])

\* Mutant of ExtractionFailed: the failure is answered without marking the row.
ExtractionFailedUnsaved(rs, t, user, doc, reason, dbOk) ==
  Outcome(rs, [t EXCEPT !.stage = "extract", !.code = 422,
                        !.error = "reason", !.reason = reason, !.jsonBody = TRUE, !.cors = TRUE])

\* catch (e) { ... await saveExtraction(..., "", "failed", reason);
\*             return json({ error: reason }, { status: 422 }); }
ExtractionFailed(rs, t, user, doc, reason, dbOk) ==
  LET sv == saveExtraction(rs, user, doc, EmptyText, "failed", reason, dbOk)
  IN Outcome(sv.rows,
             [Saved(t, sv) EXCEPT !.stage = "extract", !.code = 422,
                                       !.error = "reason", !.reason = reason, !.jsonBody = TRUE, !.cors = TRUE])

\* Mutant of SaveComplete: the result of the update is not looked at.
SaveCompleteUnchecked(rs, t, user, doc, content, dbOk) ==
  LET sv == saveExtraction(rs, user, doc, content, "complete", EmptyText, dbOk)
  IN Outcome(sv.rows, [Saved(t, sv) EXCEPT !.stage = "done", !.code = 200, !.success = TRUE,
                                           !.content = content, !.jsonBody = TRUE, !.cors = TRUE])

\* --- SAVE --- and the success response
SaveComplete(rs, t, user, doc, content, dbOk) ==
  LET sv == saveExtraction(rs, user, doc, content, "complete", EmptyText, dbOk)
      t1 == Saved(t, sv)
  IN IF sv.error
     THEN Outcome(sv.rows, [t1 EXCEPT !.stage = "save", !.code = 500,
                                      !.error = "Failed to save extracted content", !.jsonBody = TRUE, !.cors = TRUE])
     ELSE IF sv.data = 0
     THEN Outcome(sv.rows, [t1 EXCEPT !.stage = "save", !.code = 404,
                                      !.error = "Document not found for this user", !.jsonBody = TRUE, !.cors = TRUE])
     ELSE Outcome(sv.rows, [t1 EXCEPT !.stage = "done", !.code = 200, !.success = TRUE,
                                      !.content = content, !.jsonBody = TRUE, !.cors = TRUE])

\* serve(async (req) => { ... }) on request req, with the services answering env.
Handle(rs, bs, req, env) ==
  LET t0 == [Idle EXCEPT !.req = req, !.env = env]
      bearer == BearerToken(req.auth)
      user == GetUser(bearer.token)
  IN
  IF req.method = "OPTIONS" THEN Preflight(rs, t0)
  ELSE IF ~MethodAllowed(req.method) THEN Reject(rs, t0, "method", 405, "Use POST.")
  ELSE IF ~env.envOk
       THEN Reject(rs, t0, "env", 500, "Missing SUPABASE_URL or SUPABASE_SERVICE_ROLE_KEY")
  ELSE IF ~bearer.ok THEN Reject(rs, t0, "auth", 401, "No authorization header")
  ELSE IF env.throws = "getUser" THEN Escaped(rs, [t0 EXCEPT !.lookups = 1])
  ELSE IF user = "none"
       THEN Reject(rs, [t0 EXCEPT !.lookups = 1], "auth", 401, "Unauthorized")
  ELSE LET t1 == [t0 EXCEPT !.lookups = 1, !.caller = user] IN
  IF ~req.json THEN Reject(rs, t1, "body", 400, "Invalid JSON body")
  ELSE IF ~DocumentIdGiven(req.documentId)
       THEN Reject(rs, t1, "body", 400, "Missing 'documentId' (string)")
  ELSE IF ~FilePathGiven(req.filePath)
       THEN Reject(rs, t1, "body", 400, "Missing 'filePath' (string)")
  ELSE LET doc == req.documentId.id
           path == NormalizePath(req.filePath)
           dl == Download(bs, path, env.dlOk)
           t2 == [t1 EXCEPT !.doc = doc, !.path = path, !.downloads = 1]
           t2u == [t2 EXCEPT !.updates = 1]
       IN
  IF env.throws = "download" THEN Escaped(rs, t2)
  ELSE IF dl.error
       THEN IF env.throws = "update" THEN Escaped(rs, t2u)
            ELSE DownloadFailed(rs, t2, user, doc, env.dbOk)
  ELSE IF Hangs(dl.data) THEN Parsing(rs, t2)
  ELSE LET ex == Extraction(dl.data)
           t3 == [t2 EXCEPT !.pagesRead = ex.pagesRead]
       IN
  IF env.throws = "update" THEN Escaped(rs, [t3 EXCEPT !.updates = 1])
  ELSE IF ~ex.ok THEN ExtractionFailed(rs, t3, user, doc, ex.reason, env.dbOk)
  ELSE SaveComplete(rs, t3, user, doc, ex.content, env.dbOk)

\* ------------------------------------------------------------------ chat
\* A message is modelled by its length.
MessageLengths == {1, TITLE_CHARS, TITLE_CHARS + 1}

\* What may fail during one ai-chat invocation: nothing, the OPENAI_API_KEY
\* lookup, auth.getUser, the chat_sessions insert, the insert of the user
\* message, the completion request, the insert of the assistant message.
ChatFailures == {"none", "key", "auth", "session", "userMessage", "llm", "assistantMessage"}

\* Mutant of Title: the ellipsis is added from TITLE_CHARS characters on.
TitleEllipsisAtLimit(len) == [chars |-> Min(len, TITLE_CHARS), ellipsis |-> len >= TITLE_CHARS]

\* message.substring(0, 50) + (message.length > 50 ? '...' : ''): the number
\* of characters taken from the message, and whether '...' follows.
Title(len) == [chars |-> Min(len, TITLE_CHARS), ellipsis |-> len > TITLE_CHARS]

\* A chat_messages row; turn is the invocation that inserted it.
ChatMessage(session_id, user_id, role, len, turn) ==
  [session_id |-> session_id, user_id |-> user_id, role |-> role, content |-> len, turn |-> turn]

\* catch (error): 500 { error: error.message }
Thrown(sessions, messages, error) ==
  [sessions |-> sessions, messages |-> messages, code |-> 500, error |-> error, sessionId |-> 0]

\* 200 { message: assistantMessage, sessionId: chatSessionId }
Answered(sessions, messages, sessionId) ==
  [sessions |-> sessions, messages |-> messages, code |-> 200, error |-> "none",
   sessionId |-> sessionId]

\* Mutant of LlmSucceeded: response.ok is not looked at.
LlmUnchecked(fails) == TRUE

\* if (!response.ok) throw new Error(`OpenAI API error: ...`)
LlmSucceeded(fails) == fails # "llm"

\* The ai-chat handler on a POST: req = [user, message, sessionId] (sessionId
\* 0: none sent), turn the number of the invocation, fails the call that
\* fails.  The result is the two tables and the response.
AiChat(sessions, messages, req, turn, fails) ==
  IF fails = "key" THEN Thrown(sessions, messages, "OPENAI_API_KEY is not set")
  ELSE IF fails = "auth" THEN Thrown(sessions, messages, "Unauthorized")
  ELSE
    LET creates == req.sessionId = 0
        s1 == IF creates /\ fails # "session"
              THEN Append(sessions, [user_id |-> req.user, title |-> Title(req.message)])
              ELSE sessions
        chatSessionId == IF creates THEN Len(s1) ELSE req.sessionId
    IN IF creates /\ fails = "session"
       THEN Thrown(sessions, messages, "Failed to create chat session")
       ELSE IF fails = "userMessage" \/ chatSessionId \notin 1..Len(s1)
       THEN Thrown(s1, messages, "Failed to store user message")
       ELSE
         LET m1 == Append(messages, ChatMessage(chatSessionId, req.user, "user", req.message, turn))
         IN IF ~LlmSucceeded(fails) THEN Thrown(s1, m1, "OpenAI API error")
            ELSE IF fails = "assistantMessage"
            THEN Thrown(s1, m1, "Failed to store assistant message")
            ELSE Answered(s1,
                          Append(m1, ChatMessage(chatSessionId, req.user, "assistant", 0, turn)),
                          chatSessionId)

\* ChatInterface before the first message: no messages, currentSessionId null
\* (0), not loading.  conversation counts the conversations started, turns
\* the messages sent; sessionFrom is the conversation whose request brought
\* currentSessionId.
NewView ==
  [messages |-> << >>, currentSessionId |-> 0, isLoading |-> FALSE,
   conversation |-> 0, turns |-> 0, sessionFrom |-> 0]

NoCall ==
  [state |-> "idle", req |-> [user |-> "none", message |-> 0, sessionId |-> 0],
   turn |-> 0, conversation |-> 0, fails |-> "none", code |-> 0, sessionId |-> 0]

\* A message of the list ChatInterface shows: the turn that made it and the
\* conversation that turn was sent in.
Shown(role, turn, conversation) == [role |-> role, turn |-> turn, conversation |-> conversation]

ChatInit ==
  /\ chat_sessions = << >>
  /\ chat_messages = << >>
  /\ view = NewView
  /\ call = NoCall

\* --------------------------------------------------------------- actions
Init ==
  /\ rows = [d \in Slots |-> NoRow]
  /\ blobs = [p \in Slots |-> NoFile]
  /\ last = Idle
  /\ uploading = [p \in Slots |-> "none"]
  /\ ChatInit

\* The next free slot: uploads fill the slots in order, and the path of a
\* stored upload is not used again after deleteDocument removed it.
NextSlot ==
  Cardinality({p \in Slots : blobs[p].exists \/ uploading[p] = "complete"}) + 1

\* Mutant of UploadStatus: no inner try around the invoke, its throw fails the upload.
UploadStatusInvokeFails(storeOk, insertOk, invokeThrows) ==
  IF storeOk /\ insertOk /\ ~invokeThrows THEN "complete" ELSE "error"

\* The status uploadFile leaves the upload in: 'error' from the outer catch
\* when the storage upload or the insert fails, 'complete' otherwise; a throw
\* of functions.invoke is caught by the inner try and changes nothing.
UploadStatus(storeOk, insertOk, invokeThrows) ==
  IF storeOk /\ insertOk THEN "complete" ELSE "error"

\* uploadFile: store the blob under `${user.id}/${uuid}.${ext}`, insert the
\* metadata row, send the extract-content invocation without awaiting it, set
\* the upload's status.  A failed storage upload stores nothing and inserts
\* nothing; a failed insert leaves the blob without a row.  The invocation it
\* sends is one of Extract's invocations.  An upload is filed under the slot
\* it aims at (the entry of a failed one is replaced by the next attempt).
UploadOf(files) ==
  \E u \in Users, f \in files, storeOk \in BOOLEAN, insertOk \in BOOLEAN, invokeThrows \in BOOLEAN :
    /\ last = Idle
    /\ NextSlot \in Slots
    /\ IF storeOk
       THEN /\ blobs' = [blobs EXCEPT ![NextSlot] = f]
            /\ rows' = IF insertOk THEN [rows EXCEPT ![NextSlot] = NewRow(u, NextSlot)] ELSE rows
       ELSE UNCHANGED << rows, blobs >>
    /\ uploading' = [uploading EXCEPT ![NextSlot] = UploadStatus(storeOk, insertOk, invokeThrows)]
    /\ UNCHANGED last
    /\ UNCHANGED chatVars

Upload == UploadOf(Files)

\* One invocation of the extract-content function: the handler runs to its
\* response, which is then in flight.
Extract ==
  \E inv \in Invocations :
    LET o == Handle(rows, blobs, inv.req, inv.env) IN
      /\ last = Idle
      /\ rows' = o.rows
      /\ last' = o.trace
      /\ UNCHANGED << blobs, uploading >>
      /\ UNCHANGED chatVars

\* The response reaches the client (uploadFile ignores it).
Deliver ==
  /\ last # Idle
  /\ last.stage # "parsing"
  /\ last' = Idle
  /\ UNCHANGED << rows, blobs, uploading >>
  /\ UNCHANGED chatVars

Next == Upload \/ Extract \/ Deliver

Spec == Init /\ [][Next]_vars

\* ------------------------------------------- the uploaded document
\* The state after one upload: user u stored file f as blob 1 and inserted
\* row 1; the extract-content invocation is sent.
Uploaded(u, f) ==
  /\ blobs = [p \in Slots |-> IF p = 1 THEN f ELSE NoFile]
  /\ rows = [d \in Slots |-> IF d = 1 THEN NewRow(u, 1) ELSE NoRow]
  /\ uploading = [p \in Slots |-> IF p = 1 THEN UploadStatus(TRUE, TRUE, FALSE) ELSE "none"]
  /\ last = Idle
  /\ ChatInit

\* supabase.functions.invoke('extract-content', { body: { documentId:
\* document.id, filePath: uploadData.path } }), with the uploader's session.
UploadedRequest(d) ==
  Request("POST", [scheme |-> "Bearer", token |-> rows[d].user_id], TRUE,
          [kind |-> "string", id |-> d],
          [kind |-> "string", slashes |-> 0, p |-> rows[d].file_path])

\* The function serves the invocation an upload sent (or a repeat of it),
\* the services answering one of envs.
InvokeUploaded(envs) ==
  \E d \in Slots, env \in envs :
    LET o == Handle(rows, blobs, UploadedRequest(d), env) IN
      /\ last = Idle
      /\ rows[d].exists
      /\ rows' = o.rows
      /\ last' = o.trace
      /\ UNCHANGED << blobs, uploading >>
      /\ UNCHANGED chatVars

\* What the services may do to the uploaded invocation.  A throw takes the
\* place of the answer of the call that throws.
UploadedEnvironments ==
  {e \in Environments :
     /\ e.envOk
     /\ e.throws = "getUser" => (e.dlOk /\ e.dbOk)
     /\ e.throws = "download" => (e.dlOk /\ e.dbOk)
     /\ e.throws = "update" => e.dbOk}

ExtractUploaded == InvokeUploaded(UploadedEnvironments)

\* setTimeout(() => controller.abort("Operation timed out"), OP_TIMEOUT_MS):
\* the budget elapses while the handler awaits the parser.  Nothing listens
\* to the controller's signal.
TimerFires ==
  /\ last.stage = "parsing"
  /\ ~last.aborted
  /\ last' = [last EXCEPT !.aborted = TRUE]
  /\ UNCHANGED << rows, blobs, uploading >>
  /\ UNCHANGED chatVars

InitUploaded == \E u \in Users, f \in UploadedFiles : Uploaded(u, f)

NextUploaded == ExtractUploaded \/ Deliver \/ TimerFires

SpecUploaded == InitUploaded /\ [][NextUploaded]_vars

\* ------------------------------------------------------- sanitising
\* A .txt file of text t is uploaded; the function extracts it, every service up.
InitSanitize == \E t \in SanitizeInputs : Uploaded("A", TextFile(t))

ExtractText == InvokeUploaded({AllUp})

NextSanitize == ExtractText \/ Deliver

SpecSanitize == InitSanitize /\ [][NextSanitize]_vars

\* ------------------------------------------------------- PDF layout
\* A PDF with placed fragments is uploaded; the function extracts it, every
\* service up.
InitLayout == \E f \in LayoutPdfs : Uploaded("A", f)

ExtractLayout == InvokeUploaded({AllUp})

NextLayout == ExtractLayout \/ Deliver

SpecLayout == InitLayout /\ [][NextLayout]_vars

\* ------------------------------------------------- upload and delete
\* deleteDocument on a listed document: remove the blob at document.file_path,
\* then delete the row; an error of either call ends it in the catch (a
\* failed remove leaves both, a failed delete leaves the row).
deleteDocument ==
  \E d \in Slots, removeOk \in BOOLEAN, deleteOk \in BOOLEAN :
    /\ last = Idle
    /\ rows[d].exists
    /\ IF removeOk
       THEN /\ blobs' = [blobs EXCEPT ![rows[d].file_path] = NoFile]
            /\ rows' = IF deleteOk THEN [rows EXCEPT ![d] = NoRow] ELSE rows
       ELSE UNCHANGED << rows, blobs >>
    /\ UNCHANGED << last, uploading >>
    /\ UNCHANGED chatVars

UploadAny == UploadOf(UploadedFiles)

NextStore == UploadAny \/ deleteDocument

SpecStore == Init /\ [][NextStore]_vars

\* ------------------------------------------------- two users' documents
\* The state after two uploads: user A stored fa as blob 1 with row 1, user B
\* stored fb as blob 2 with row 2.
PairSlots == 1..2

PairFiles == {TxtFile, TextPdf, NoisyFile("md"), EncryptedPdf}

InitPair ==
  \E fa \in PairFiles, fb \in PairFiles :
    /\ blobs = [p \in PairSlots |-> IF p = 1 THEN fa ELSE fb]
    /\ rows = [d \in PairSlots |-> NewRow(IF d = 1 THEN "A" ELSE "B", d)]
    /\ uploading = [p \in PairSlots |-> UploadStatus(TRUE, TRUE, FALSE)]
    /\ last = Idle
    /\ ChatInit

\* A signed-in user POSTs { documentId, filePath } naming any stored row and
\* any stored object; the services answer.
ExtractNamed ==
  \E u \in Users, d \in PairSlots, p \in PairSlots, dlOk \in BOOLEAN, dbOk \in BOOLEAN :
    LET req == Request("POST", [scheme |-> "Bearer", token |-> u], TRUE,
                       [kind |-> "string", id |-> d],
                       [kind |-> "string", slashes |-> 0, p |-> p])
        o == Handle(rows, blobs, req,
                    [envOk |-> TRUE, dlOk |-> dlOk, dbOk |-> dbOk, throws |-> "none"])
    IN /\ last = Idle
       /\ rows' = o.rows
       /\ last' = o.trace
       /\ UNCHANGED << blobs, uploading >>
       /\ UNCHANGED chatVars

NextPair == ExtractNamed \/ Deliver

SpecPair == InitPair /\ [][NextPair]_vars

\* ------------------------------------------------------------ chat flow
\* sendMessage up to the await: the optimistic user message, isLoading, and
\* the invocation with the currentSessionId of this render.
sendMessage ==
  \E len \in MessageLengths :
    /\ ~view.isLoading
    /\ view.turns < MaxTurns
    /\ view' = [view EXCEPT !.messages = Append(@, Shown("user", view.turns + 1, view.conversation)),
                            !.isLoading = TRUE,
                            !.turns = @ + 1]
    /\ call' = [NoCall EXCEPT !.state = "sent",
                              !.req = [user |-> "A", message |-> len,
                                       sessionId |-> view.currentSessionId],
                              !.turn = view.turns + 1,
                              !.conversation = view.conversation]
    /\ UNCHANGED << chat_sessions, chat_messages >>
    /\ UNCHANGED docVars

\* The ai-chat function serves the invocation.
ServeChat ==
  \E fails \in ChatFailures :
    LET o == AiChat(chat_sessions, chat_messages, call.req, call.turn, fails) IN
      /\ call.state = "sent"
      /\ chat_sessions' = o.sessions
      /\ chat_messages' = o.messages
      /\ call' = [call EXCEPT !.state = "answered", !.fails = fails, !.code = o.code,
                              !.sessionId = o.sessionId]
      /\ UNCHANGED view
      /\ UNCHANGED docVars

\* sendMessage after the await: on success the session id is adopted when the
\* currentSessionId this sendMessage was created with is null, and the reply
\* is appended to the list; on an error the optimistic message is filtered
\* out; finally isLoading is reset.
Receive ==
  /\ call.state = "answered"
  /\ view' =
       IF call.code = 200
       THEN [view EXCEPT
               !.currentSessionId = IF call.req.sessionId = 0 THEN call.sessionId ELSE @,
               !.sessionFrom = IF call.req.sessionId = 0 THEN call.conversation ELSE @,
               !.messages = Append(@, Shown("assistant", call.turn, call.conversation)),
               !.isLoading = FALSE]
       ELSE [view EXCEPT
               !.messages = SelectSeq(@, LAMBDA m : ~(m.role = "user" /\ m.turn = call.turn)),
               !.isLoading = FALSE]
  /\ call' = NoCall
  /\ UNCHANGED << chat_sessions, chat_messages >>
  /\ UNCHANGED docVars

\* The New Chat button, shown while the list is not empty.
startNewConversation ==
  /\ Len(view.messages) > 0
  /\ view.conversation < MaxTurns
  /\ view' = [view EXCEPT !.messages = << >>, !.currentSessionId = 0,
                          !.conversation = @ + 1, !.sessionFrom = 0]
  /\ UNCHANGED << chat_sessions, chat_messages, call >>
  /\ UNCHANGED docVars

NextChat == sendMessage \/ ServeChat \/ Receive \/ startNewConversation

SpecChat == Init /\ [][NextChat]_vars

\* ================================================================ claims
\* The invocation whose response is in flight: the caller's own row, the
\* object the request names, and how far the request gets.
Authenticated == last.req.auth.scheme = "Bearer" /\ last.req.auth.token \in Users

Reached == last # Idle /\ last.req.method = "POST" /\ last.env.envOk

ValidRequest == Reached /\ ReachesDownload(last.req)

RequestedPath == last.req.filePath.p

RequestedDoc == last.req.documentId.id

BlobAvailable ==
  last.env.dlOk /\ RequestedPath \in Slots /\ blobs[RequestedPath].exists

RequestedFile == IF RequestedPath \in Slots THEN blobs[RequestedPath] ELSE NoFile

CallerOwnsRow ==
  /\ RequestedDoc \in Slots /\ rows[RequestedDoc].exists
  /\ rows[RequestedDoc].user_id = last.req.auth.token

\* The update reaches the caller's row: the row is the caller's and the
\* database accepts the update.
RowUpdated == CallerOwnsRow /\ last.env.dbOk

OpensAsPdf == ValidRequest /\ BlobAvailable /\ Lower(RequestedFile.ext) = "pdf"

\* A step of Extract: a response comes into flight.
ExtractStep == last = Idle /\ last' # Idle

\* C1: original claim -- every Document row has extraction_status = complete
\* if and only if its content is non-null.  Refuted by a successful extraction
\* followed by a failing one: saveExtraction writes status failed and leaves
\* the earlier content in place.
C1_StatusIffContent ==
  \A d \in Slots :
    rows[d].exists => (rows[d].extraction_status = "complete" <=> rows[d].content # NULL)

\* C2: an extract invocation never changes any field of a row owned by a user
\* other than the authenticated caller (or of any row, when it authenticates
\* nobody), whatever documentId and filePath it carries and however it ends.
C2_OtherUsersRowsUntouched ==
  [][ExtractStep =>
       \A d \in Slots :
         (rows[d].exists /\ rows[d].user_id # last'.caller) => rows'[d] = rows[d]]_vars

\* C2 witness: an invocation got as far as the final update carrying the id of
\* a row that belongs to another user.
C2_Witness ==
  /\ last.stage = "save" /\ last.updates = 1 /\ last.caller \in Users
  /\ RequestedDoc \in Slots /\ rows[RequestedDoc].exists
  /\ rows[RequestedDoc].user_id # last.caller

\* C3: original claim -- when the final update of a successfully extracted
\* document matches zero rows (the database being up), the response is 404
\* "Document not found for this user".  Refuted: single() turns zero rows into
\* an error, so the handler answers 500 "Failed to save extracted content".
C3_ZeroRowsAnswers404 ==
  (last.stage \in {"save", "done"} /\ last.env.dbOk /\ last.matched = 0)
    => (last.code = 404 /\ last.error = "Document not found for this user")

\* C4: a POST (environment configured) whose Authorization header is missing
\* or not of the form "Bearer <token>" is answered 401; no download and no row
\* update is made, and no row and no stored object changes.
C4_NoBearer == Reached /\ last.req.auth.scheme # "Bearer"

C4_MissingBearerIs401 ==
  /\ [](C4_NoBearer => (last.code = 401 /\ last.downloads = 0 /\ last.updates = 0))
  /\ [][(ExtractStep /\ C4_NoBearer') => (rows' = rows /\ blobs' = blobs)]_vars

\* C4 witness: a request without the header was answered while a row existed.
C4_Witness ==
  /\ C4_NoBearer /\ last.req.auth.scheme = "none" /\ last.code = 401
  /\ \E d \in Slots : rows[d].exists

\* C5: an authenticated POST whose body is not JSON, or whose documentId or
\* filePath is missing, not a string or empty, is answered 400 with no
\* download and no row update made; a missing or invalid credential is
\* answered 401 with no download and no row update made.
C5_BadBody ==
  /\ Reached /\ Authenticated
  /\ \/ ~last.req.json
     \/ last.req.documentId.kind # "string" \/ last.req.documentId.id = 0
     \/ last.req.filePath.kind # "string"
     \/ (last.req.filePath.slashes = 0 /\ last.req.filePath.p = 0)

C5_InvalidInputFailsFast ==
  /\ C5_BadBody => (last.code = 400 /\ last.downloads = 0 /\ last.updates = 0)
  /\ (Reached /\ ~Authenticated)
       => (last.code = 401 /\ last.downloads = 0 /\ last.updates = 0)

\* C5 witness: an authenticated request with filePath "" was answered 400.
C5_Witness ==
  /\ C5_BadBody /\ last.req.json /\ last.req.documentId.id \in Slots
  /\ last.req.filePath.kind = "string" /\ last.code = 400

\* C6: when the download fails, the handler issues one update that sets
\* extraction_status = failed with the download-failed reason (the caller's
\* row carries both once the update reaches it), answers with a 5xx status,
\* and calls the download once.
C6_DownloadFails == ValidRequest /\ ~BlobAvailable

C6_DownloadFailureMarksRow ==
  C6_DownloadFails =>
    /\ last.code \in 500..599
    /\ last.downloads = 1
    /\ last.updates = 1
    /\ last.payload.extraction_status = "failed"
    /\ last.payload.failure_reason = DOWNLOAD_FAILED
    /\ RowUpdated => /\ rows[RequestedDoc].extraction_status = "failed"
                     /\ rows[RequestedDoc].failure_reason = DOWNLOAD_FAILED

\* C6 witness: the download of an existing object failed and the caller's row
\* was marked failed.
C6_Witness ==
  /\ C6_DownloadFails /\ RowUpdated /\ RequestedPath \in Slots
  /\ rows[RequestedDoc].extraction_status = "failed"
  /\ rows[RequestedDoc].failure_reason = DOWNLOAD_FAILED

\* C7: an invocation that passes authentication and input validation issues
\* exactly one row update before it responds, however it ends; one that is
\* rejected before issues none; no invocation inserts or deletes a row or
\* changes a stored object.
C7_ExactlyOneUpdate ==
  /\ [](ValidRequest => last.updates = 1)
  /\ []((last # Idle /\ ~ValidRequest) => last.updates = 0)
  /\ [][ExtractStep =>
         (blobs' = blobs /\ \A d \in Slots : rows'[d].exists = rows[d].exists)]_vars

\* C7 witness: an extraction failure, answered after one update.
C7_Witness == ValidRequest /\ last.stage = "extract" /\ last.updates = 1 /\ RowUpdated

\* C8: for a .pdf whose opening is rejected as encrypted, the response is 422,
\* no page is read, and the update sets extraction_status = failed with the
\* encrypted/password reason (the caller's row carries both once the update
\* reaches it).
C8_Encrypted == OpensAsPdf /\ RequestedFile.open = "encrypted"

C8_EncryptedPdfFails ==
  C8_Encrypted =>
    /\ last.code = 422
    /\ last.reason = ENCRYPTED_REASON
    /\ last.pagesRead = 0
    /\ last.payload.extraction_status = "failed"
    /\ last.payload.failure_reason = ENCRYPTED_REASON
    /\ RowUpdated => /\ rows[RequestedDoc].extraction_status = "failed"
                     /\ rows[RequestedDoc].failure_reason = ENCRYPTED_REASON

C8_Witness ==
  /\ C8_Encrypted /\ RowUpdated /\ last.code = 422
  /\ rows[RequestedDoc].extraction_status = "failed"

\* C9: for a .pdf that opens and reports more pages than MAX_PDF_PAGES, no
\* page is read, the response is 422, and the update sets extraction_status =
\* failed with a reason that carries the actual page count and the limit.
C9_Oversized ==
  OpensAsPdf /\ RequestedFile.open = "ok" /\ RequestedFile.numPages > MAX_PDF_PAGES

C9_CitesCounts(reason) ==
  /\ Len(reason) = 1 /\ reason[1].c = "PAGE_LIMIT_REASON"
  /\ reason[1].p = RequestedFile.numPages /\ reason[1].q = MAX_PDF_PAGES
  /\ reason[1].n = 24 + Digits(reason[1].p) + Digits(reason[1].q)

C9_OversizedPdfFails ==
  C9_Oversized =>
    /\ last.code = 422
    /\ last.pagesRead = 0
    /\ C9_CitesCounts(last.reason)
    /\ last.payload.extraction_status = "failed"
    /\ C9_CitesCounts(last.payload.failure_reason)
    /\ RowUpdated => /\ rows[RequestedDoc].extraction_status = "failed"
                     /\ C9_CitesCounts(rows[RequestedDoc].failure_reason)

C9_Witness ==
  /\ C9_Oversized /\ RowUpdated /\ last.code = 422
  /\ rows[RequestedDoc].extraction_status = "failed"

\* C10: original claim -- for every .pdf that opens within the page ceiling
\* and has no extractable character on any page, the row ends complete and the
\* persisted and the returned content are the OCR-suggestion message.  Refuted
\* by a document above the soft limit: the truncation marker is pushed before
\* the emptiness test, so the content is the marker.
C10_ImageOnly ==
  /\ OpensAsPdf /\ RequestedFile.open = "ok" /\ RequestedFile.numPages <= MAX_PDF_PAGES
  /\ RequestedFile.frags = << >> /\ RequestedFile.failPage = 0

C10_ImageOnlyPdfGetsOcrMessage ==
  (C10_ImageOnly /\ RowUpdated) =>
    /\ last.success /\ last.content = OCR_MESSAGE
    /\ rows[RequestedDoc].extraction_status = "complete"
    /\ rows[RequestedDoc].content = OCR_MESSAGE

\* ---- claims on the uploaded document
\* The invocation in flight found every service up, no call threw, and its
\* update reached the caller's row.
ServedInFull ==
  /\ ValidRequest /\ BlobAvailable /\ RowUpdated
  /\ last.env.throws = "none" /\ last.stage # "parsing"

Completed(d) == rows[d].exists /\ rows[d].extraction_status = "complete"

\* C11: for a stored file whose extension is none of the supported ones (blob
\* downloadable, document owned), the response is {success: true} with the
\* fixed unsupported-type message as content, and the row is complete with
\* that content, not failed.
C11_Unsupported == ServedInFull /\ RequestedFile.ext \in {"xyz", "docx", ""}

C11_UnsupportedTypeIsSuccess ==
  C11_Unsupported =>
    /\ last.code = 200 /\ last.success /\ last.content = UNSUPPORTED_MESSAGE
    /\ rows[RequestedDoc].extraction_status = "complete"
    /\ rows[RequestedDoc].content = UNSUPPORTED_MESSAGE

C11_Witness ==
  /\ C11_Unsupported /\ RequestedFile = NoisyFile("xyz") /\ last.success
  /\ Completed(RequestedDoc)

\* C12: the content of every successful outcome, as returned and as persisted,
\* is at most MAX_OUTPUT_CHARS characters long, whatever the file and the
\* dispatch branch (the truncation marker of a PDF included).
C12_ContentBounded ==
  /\ last.success => TextLen(last.content) <= MAX_OUTPUT_CHARS
  /\ \A d \in Slots :
       Completed(d) => (rows[d].content # NULL /\ TextLen(rows[d].content) <= MAX_OUTPUT_CHARS)

\* C12 witness: a PDF above the soft limit with more text than the bound was
\* extracted, and its content is exactly the bound long.
C12_Witness ==
  /\ ServedInFull /\ RequestedFile = LongTruncatedPdf /\ last.success
  /\ TextLen(rows[RequestedDoc].content) = MAX_OUTPUT_CHARS

\* C13: clean is idempotent: cleaning the stored text twice gives what cleaning
\* it once gives, and the content an extraction of a .txt file produced is
\* left unchanged by clean.
C13_CleanIdempotent ==
  /\ \A p \in Slots :
       blobs[p].exists => clean(clean(blobs[p].text)) = clean(blobs[p].text)
  /\ last.success => clean(last.content) = last.content

\* C13 witness: an extracted text that clean changed, without emptying it.
C13_Witness ==
  /\ last.success /\ last.content # EmptyText /\ last.content # RequestedFile.text
  /\ clean(RequestedFile.text) = last.content

\* C14: the content returned and persisted by a successful invocation holds
\* no NUL and no C0/DEL control character other than tab, CR and LF.
C14_Controls == {"NUL", "CTL", "FF"}

C14_NoControlCharacters ==
  /\ last.success => \A i \in 1..Len(last.content) : last.content[i].c \notin C14_Controls
  /\ \A d \in Slots :
       Completed(d) => \A i \in 1..Len(rows[d].content) : rows[d].content[i].c \notin C14_Controls

\* C14 witness: a PDF whose text items hold control characters was extracted.
C14_Witness ==
  /\ ServedInFull /\ RequestedFile = TextPdf /\ last.success
  /\ \E i \in 1..Len(RequestedFile.frags) :
       \E j \in 1..Len(RequestedFile.frags[i].s) : RequestedFile.frags[i].s[j].c \in C14_Controls

\* C15: for a .txt input the extracted content holds no NUL and no run of
\* three or more newlines, `hello\x00world\n\n\n\nbye` gives
\* "helloworld\n\nbye", and the row ends complete.
C15_Example == ServedInFull /\ RequestedFile.text = TxtFile.text

C16_TimeoutEndsInvocation ==
  last.aborted =>
    /\ last.code \in 400..599 /\ last.jsonBody
    /\ last.payload.extraction_status = "failed"
    /\ last.payload.failure_reason = TIMED_OUT
    /\ RowUpdated => rows[RequestedDoc].extraction_status = "failed"

\* C17: original claim -- every invocation that has ended ended with a JSON
\* response, {success, content} or {error}.  Refuted: the identity lookup, the
\* download and the row updates are awaited outside every try block, so a
\* rejection of one of them leaves the handler as an exception.
C17_AlwaysJsonResponse ==
  (last # Idle /\ last.stage # "parsing") =>
    (last.jsonBody /\ (last.success \/ last.error # "none"))

\* C18: original claim -- after an invocation whose update reached the row, the
\* row's content, extraction_status and failure_reason are what that
\* invocation alone would have written to a freshly uploaded row.  Refuted:
\* the update sets content only on success and failure_reason only on failure,
\* so the other field of an earlier run survives.
C18_FullOverwrite ==
  (last.matched = 1 /\ last.doc \in Slots) =>
    rows[last.doc] =
      ApplyPayload(NewRow(rows[last.doc].user_id, rows[last.doc].file_path), last.payload)

\* C19: once the blob is stored and the row inserted, the upload's status is
\* 'complete', and no outcome of an extract-content invocation (none yet, a
\* success, an error response, a rejection) changes the status of an upload.
C19_UploadIgnoresExtraction ==
  /\ [](\A p \in Slots : (blobs[p].exists /\ rows[p].exists) => uploading[p] = "complete")
  /\ [][(last' # last) => uploading' = uploading]_vars

\* C19 witness: the upload is complete although the extraction of its document
\* has just failed.
C19_Witness ==
  /\ last.code = 502 /\ RowUpdated /\ uploading[RequestedDoc] = "complete"
  /\ rows[RequestedDoc].extraction_status = "failed"

\* C20: the extractor is chosen by the suffix of the path alone, compared
\* without regard to case: pdf -> the PDF extractor; txt, md -> clean and cut;
\* csv -> per-line cleaning first; json -> the pretty-printed value when the
\* text parses, the text otherwise; anything else -> the unsupported message.
C20_Extractor(f) ==
  CASE f.ext \in {"pdf", "PDF"} -> ExtractPdf(f)
    [] f.ext \in {"txt", "TXT", "md", "Md"} -> Extracted(Slice(clean(f.text), MAX_OUTPUT_CHARS))
    [] f.ext \in {"csv", "CSV"} -> Extracted(Slice(clean(CsvLines(f.text)), MAX_OUTPUT_CHARS))
    [] f.ext \in {"json", "JSON"} ->
         Extracted(Slice(clean(IF f.jsonValid THEN f.jsonPretty ELSE f.text), MAX_OUTPUT_CHARS))
    [] OTHER -> Extracted(UNSUPPORTED_MESSAGE)

C20_DispatchBySuffix ==
  ServedInFull =>
    LET ex == C20_Extractor(RequestedFile) IN
      IF ex.ok
      THEN last.success /\ last.content = ex.content /\ rows[RequestedDoc].content = ex.content
      ELSE last.code = 422 /\ last.reason = ex.reason

\* C20 witness: a JSON document stored as ".JSON" came back pretty-printed,
\* which differs from what the text and the csv extractor make of it.
C20_Witness ==
  /\ ServedInFull /\ RequestedFile = JsonFile("JSON") /\ last.success
  /\ last.content = clean(JsonPretty)
  /\ last.content # clean(JsonText) /\ last.content # clean(CsvLines(JsonText))

\* ---- method, soft limit, success response
\* C21: a request whose method is neither POST nor OPTIONS is answered 405
\* with no identity lookup, no download and no row update; an OPTIONS request
\* is answered 200 with the CORS headers, whatever its Authorization header,
\* without a lookup.
C21_PostOnly ==
  /\ (last # Idle /\ last.req.method \notin {"POST", "OPTIONS"}) =>
       /\ last.code = 405 /\ last.cors
       /\ last.lookups = 0 /\ last.downloads = 0 /\ last.updates = 0
  /\ last.req.method = "OPTIONS" =>
       /\ last.code = 200 /\ last.cors /\ last.error = "none"
       /\ last.lookups = 0 /\ last.downloads = 0 /\ last.updates = 0

\* C21 witness: a GET carrying a valid credential was turned away while a
\* document existed.
C21_Witness ==
  /\ last.req.method = "GET" /\ last.req.auth.scheme = "Bearer" /\ last.code = 405
  /\ \E d \in Slots : rows[d].exists

\* C22: original claim -- for a PDF with more pages than the soft limit and at
\* most the ceiling, SOFT_PDF_PAGES_LIMIT pages are scanned and the returned
\* and the persisted content hold the truncation marker (pages scanned / total
\* pages), whatever the amount of text.  Refuted: the marker is the last
\* element joined, and the cut at MAX_OUTPUT_CHARS removes it when the scanned
\* pages hold that much text.
C22_AboveSoftLimit ==
  /\ ServedInFull /\ Lower(RequestedFile.ext) = "pdf" /\ RequestedFile.open = "ok"
  /\ RequestedFile.numPages > SOFT_PDF_PAGES_LIMIT /\ RequestedFile.numPages <= MAX_PDF_PAGES
  /\ RequestedFile.failPage = 0

C22_Holds(content) ==
  \E i \in 1..Len(content) :
    content[i] = TruncationMarker(SOFT_PDF_PAGES_LIMIT, RequestedFile.numPages)[1]

C22_MarkerKept ==
  C22_AboveSoftLimit =>
    /\ last.pagesRead = SOFT_PDF_PAGES_LIMIT
    /\ last.success /\ C22_Holds(last.content)
    /\ C22_Holds(rows[RequestedDoc].content)

\* C30: a {success: true, content} response is sent only when the update
\* matched exactly the caller's own row, and the row then holds that content
\* with extraction_status = complete.
C30_SuccessMeansPersisted ==
  last.success =>
    /\ last.matched = 1 /\ CallerOwnsRow
    /\ last.payload.extraction_status = "complete" /\ last.payload.content = last.content
    /\ rows[RequestedDoc].extraction_status = "complete"
    /\ rows[RequestedDoc].content = last.content

C30_Witness ==
  /\ last.success /\ last.content # EmptyText /\ CallerOwnsRow
  /\ rows[RequestedDoc].content = last.content

\* ---- line reconstruction
\* The fragments of page i that carry text, in item order.
C23_Shown(f, i) == SelectSeq(f.frags, LAMBDA it : it.pg = i /\ it.s # EmptyText)

\* Does fragment cur start a new line after fragment prev?
C23_Breaks(prev, cur) ==
  \/ Abs(cur.y - prev.y) > LINE_EPSILON
  \/ cur.x < prev.x - LINE_EPSILON

\* The text of the first k fragments of a page as the claim lays it out.
RECURSIVE C23_Laid(_, _)
C23_Laid(shown, k) ==
  IF k = 0 THEN EmptyText
  ELSE IF k = 1 THEN shown[1].s
  ELSE Concat(C23_Laid(shown, k - 1),
              Concat(<< Run(IF C23_Breaks(shown[k - 1], shown[k]) THEN "LF" ELSE "SP", 1) >>,
                     shown[k].s))

C23_Page(f, i) == C23_Laid(C23_Shown(f, i), Len(C23_Shown(f, i)))

C26_OwnBlobOnly ==
  (last.success /\ RequestedPath \in DOMAIN rows) =>
    rows[RequestedPath].user_id = last.req.auth.token

\* ---- upload and delete
\* C29: original claim -- every documents row's file_path names an object that
\* exists, whichever single store call of uploadFile or deleteDocument fails.
\* Refuted: deleteDocument removes the object first.
C29_RowHasBlob ==
  \A d \in Slots : rows[d].exists => blobs[rows[d].file_path].exists

\* ---- chat
\* new holds old as its first rows, unchanged.
Extends(old, new) == Len(old) <= Len(new) /\ SubSeq(new, 1, Len(old)) = old

\* The rows a step appended to chat_messages.
Appended(j) == j \in (Len(chat_messages) + 1)..Len(chat_messages')

\* C24: chat_messages only grows by rows appended (no row is changed or
\* removed); every assistant row comes after the user row of the same
\* invocation, in the same session; an assistant row is appended only by an
\* invocation whose completion request succeeded and which appended its user
\* row first.
C24_ChatLog ==
  /\ [](\A j \in 1..Len(chat_messages) :
          chat_messages[j].role = "assistant" =>
            \E i \in 1..(j - 1) :
              /\ chat_messages[i].role = "user"
              /\ chat_messages[i].turn = chat_messages[j].turn
              /\ chat_messages[i].session_id = chat_messages[j].session_id)
  /\ [][/\ Extends(chat_messages, chat_messages')
        /\ \A j \in 1..Len(chat_messages') :
             (Appended(j) /\ chat_messages'[j].role = "assistant") =>
               /\ call'.fails \notin {"llm", "userMessage"}
               /\ Appended(j - 1) /\ chat_messages'[j - 1].role = "user"]_vars

\* C24 witness: two turns of one conversation are stored, each user message
\* followed by its reply.
C24_Witness ==
  /\ Len(chat_messages) = 4
  /\ \A j \in 1..4 : chat_messages[j].session_id = 1
  /\ chat_messages[3].role = "user" /\ chat_messages[4].role = "assistant"

\* C25: a step adds at most one chat_sessions row and changes none; it adds
\* one only for an invocation that carries no sessionId, with the caller as
\* user_id and as title the first TITLE_CHARS characters of the message,
\* followed by '...' exactly when the message is longer.
C25_SessionRows ==
  [][/\ Extends(chat_sessions, chat_sessions')
     /\ Len(chat_sessions') <= Len(chat_sessions) + 1
     /\ (call.state = "sent" /\ call.req.sessionId # 0) => chat_sessions' = chat_sessions
     /\ chat_sessions' # chat_sessions =>
          LET new == chat_sessions'[Len(chat_sessions')] IN
            /\ call.state = "sent" /\ call.req.sessionId = 0
            /\ new.user_id = call.req.user
            /\ new.title.chars = Min(call.req.message, TITLE_CHARS)
            /\ new.title.ellipsis <=> call.req.message > TITLE_CHARS]_vars

\* C25 witness: a session titled by a message of exactly TITLE_CHARS
\* characters exists, and an invocation carrying its id was answered.
C25_Witness ==
  /\ Len(chat_sessions) = 1
  /\ chat_sessions[1].title = [chars |-> TITLE_CHARS, ellipsis |-> FALSE]
  /\ call.state = "answered" /\ call.req.sessionId = 1 /\ call.code = 200

\* C27: original claim -- the list ChatInterface shows holds only messages of
\* the current conversation, and currentSessionId is a session obtained in
\* the current conversation, also when startNewConversation ran while a
\* sendMessage was awaiting its reply.  Refuted: the continuation appends to
\* whatever list is current and tests the currentSessionId it was created with.
C27_NoStaleReply ==
  /\ \A i \in 1..Len(view.messages) : view.messages[i].conversation = view.conversation
  /\ view.currentSessionId # 0 => view.sessionFrom = view.conversation

\* C28: original claim -- an ai-chat invocation answered with an error leaves
\* chat_sessions and chat_messages as they were.  Refuted: the rows inserted
\* before the failing call stay.
C28_ErrorLeavesTables ==
  [][(call.state = "sent" /\ call'.state = "answered" /\ call'.code # 200) =>
       (chat_sessions' = chat_sessions /\ chat_messages' = chat_messages)]_vars

====
